---- MODULE Spec2Model ----
(***************************************************************************)
(* State-machine model of src/src/auth/authApp.js: the sign-in response    *)
(* processor handlePendingSignInImpl (processSignInResponse), the sign-in  *)
(* redirect redirectToSignInImpl and the session they share.               *)
(*                                                                         *)
(* JavaScript values are modelled as strings ("undefined" and "null" are   *)
(* the two empty values), version strings as triples of numbers, and an    *)
(* optional object as a sequence of length 0 or 1.  Each promise callback  *)
(* of the source is one action: callbacks run to completion, and callbacks *)
(* of different calls interleave freely.                                   *)
(***************************************************************************)
EXTENDS Integers, Sequences, FiniteSets, TLC

VARIABLES sessionData, calls, invoked, commits, redirects, loads, loaded

vars == <<sessionData, calls, invoked, commits, redirects, loads, loaded>>

-----------------------------------------------------------------------------
(* Bounds *)

\* number of processSignInResponse invocations on the one session
MaxCalls == 2

\* number of redirectToSignInImpl invocations
MaxRedirects == 1

\* number of getCurrentUser (loadUserDataImpl) invocations
MaxLoads == 1

Calls == 1..MaxCalls

-----------------------------------------------------------------------------
(* JavaScript values *)

Undefined == "undefined"
Null == "null"

None == <<>>
Some(x) == <<x>>

\* v !== undefined && v !== null
Present(v) == v # Undefined /\ v # Null

-----------------------------------------------------------------------------
(* Constants of the program *)

DEFAULT_PROFILE == "{@type:Person,@context:http://schema.org}"

BLOCKSTACK_DEFAULT_GAIA_HUB_URL == "https://hub.blockstack.org"

DEFAULT_CORE_NODE == "https://core.blockstack.org"

NAME_LOOKUP_PATH == "/v1/names"

NoError == [name |-> "", message |-> ""]

LoginFailedError(message) == [name |-> "LoginFailedError", message |-> message]

InvalidResponseMessage == "Invalid authentication response."

DecryptFailedMessage ==
  "Failed decrypting appPrivateKey. Usually means that the transit key has changed during login."

NoTransitKeyMessage ==
  "Authenticating with protocol > 1.1.0 requires transit key, and none found."

InvalidStateError(message) == [name |-> "InvalidStateError", message |-> message]

NoUserDataMessage == "No user data found. Did the user sign in?"

\* what a rejected fetch() carries: no handler of the source catches it
FetchError == [name |-> "TypeError", message |-> "Failed to fetch"]

\* what JSON.parse throws on a body that is no JSON
JSONSyntaxError == [name |-> "SyntaxError", message |-> "Unexpected token in JSON"]

\* what wrappedProfile[0].token throws on an empty array
NoEntryError == [name |-> "TypeError", message |-> "Cannot read property 'token' of undefined"]

-----------------------------------------------------------------------------
(* Collaborators the source imports *)

TransitKeys == {"tk1", "tk2"}

TransitKeyValues == {Undefined, Null} \cup TransitKeys

\* ciphertexts: the key each was encrypted to and its plaintext
Encrypted ==
  ("tk1{a1b2c3}" :> [key |-> "tk1", plain |-> "a1b2c3"]) @@
  ("tk1{core-session}" :> [key |-> "tk1", plain |-> "core-session"])

\* strings that parse as a hex private key
HexKeys == {"a1b2c3"}

\* decryptPrivateKey(privateKey, hexedEncrypted): the plaintext, or it throws
decryptPrivateKey(privateKey, cipherText) ==
  IF cipherText \in DOMAIN Encrypted /\ Encrypted[cipherText].key = privateKey
  THEN [ok |-> TRUE, value |-> Encrypted[cipherText].plain]
  ELSE [ok |-> FALSE, value |-> Undefined]

\* hexStringToECPair(skHex): a key pair, or it throws
hexStringToECPair(skHex) == [ok |-> skHex \in HexKeys]

RECURSIVE laterFrom(_, _, _)
laterFrom(a, b, i) ==
  IF i > Len(a) THEN FALSE
  ELSE IF a[i] > b[i] THEN TRUE
  ELSE IF a[i] < b[i] THEN FALSE
  ELSE laterFrom(a, b, i + 1)

NoVersion == <<>>

\* isLaterVersion(v1, v2): v1 is later than v2; an absent version is the lowest
isLaterVersion(v1, v2) ==
  LET a == IF v1 = NoVersion THEN <<0, 0, 0>> ELSE v1
      b == IF v2 = NoVersion THEN <<0, 0, 0>> ELSE v2
  IN laterFrom(a, b, 1)

\* getAddressFromDID(did)
getAddressFromDID(did) ==
  IF did = "did:btc-addr:1Alice" THEN "1Alice"
  ELSE IF did = "did:btc-addr:1Bob" THEN "1Bob"
  ELSE Undefined

\* decodeToken(token): structural decoding of the claim set
decodeToken(token) == [payload |-> token.payload, signature |-> token.signature]

\* JSON.parse(responseText)
JSONParse(text) ==
  IF text = "[]" THEN [ok |-> TRUE, value |-> <<>>]
  ELSE IF text = "[{token:profile-token}]"
       THEN [ok |-> TRUE, value |-> <<[token |-> "profile-token"]>>]
  ELSE [ok |-> FALSE, value |-> <<>>]

\* extractProfile(token): the profile claims of a profile token
extractProfile(token) == "{@type:Person,name:" \o token \o "}"

-----------------------------------------------------------------------------
(* Inputs *)

Versions == {NoVersion, <<1, 0, 0>>, <<1, 1, 0>>, <<1, 2, 0>>, <<1, 3, 0>>}

PrivateKeyValues == {Undefined, Null, "a1b2c3", "not-a-key", "tk1{a1b2c3}"}

CoreTokenValues == {Undefined, Null, "core-session", "tk1{core-session}"}

HubUrlValues == {Undefined, Null, "https://custom.hub"}

ProfileValues == {Undefined, Null, "{@type:Person,name:embedded}"}

ProfileUrlValues == {Undefined, Null, "https://profiles.example/alice.json"}

\* every payload of one issuer
AllPayloads ==
  [version : Versions, private_key : PrivateKeyValues, core_token : CoreTokenValues,
   hubUrl : HubUrlValues, username : {"alice.id"}, iss : {"did:btc-addr:1Alice"},
   profile : ProfileValues, profile_url : ProfileUrlValues]

AllTokens == [payload : AllPayloads, signature : {"sig"}]

\* a few tokens of two issuers, for overlapping calls
Tokens ==
  { [payload |-> [version |-> <<1, 3, 0>>, private_key |-> "tk1{a1b2c3}",
                  core_token |-> "tk1{core-session}", hubUrl |-> "https://custom.hub",
                  username |-> "alice.id", iss |-> "did:btc-addr:1Alice",
                  profile |-> Null,
                  profile_url |-> "https://profiles.example/alice.json"],
     signature |-> "sig"],
    [payload |-> [version |-> NoVersion, private_key |-> "a1b2c3",
                  core_token |-> Undefined, hubUrl |-> Undefined,
                  username |-> "bob.id", iss |-> "did:btc-addr:1Bob",
                  profile |-> "{@type:Person,name:embedded}",
                  profile_url |-> Undefined],
     signature |-> "sig"] }

\* bodies of a successful profile response
Bodies == {"<html>", "[]", "[{token:profile-token}]"}

Responses == {[ok |-> FALSE, body |-> "Not Found"]} \cup [ok : {TRUE}, body : Bodies]

-----------------------------------------------------------------------------
(* handlePendingSignInImpl: the computations of the verification callback *)

\* line 126 dropped: an invalid response is processed like a valid one
InvalidResponse_Never(isValid) == FALSE

\* line 126
InvalidResponse(isValid) == ~isValid

\* the gate compares with 1.0.0: version 1.1.0 is taken for an encrypting version
VersionGate_After100(payload) == isLaterVersion(payload.version, <<1, 0, 0>>)

\* line 133
VersionGate(payload) == isLaterVersion(payload.version, <<1, 1, 0>>)

\* only undefined is tested: a null transit key passes for a key
HasTransitKey_NotUndefined(transitKey) == transitKey # Undefined

\* line 134
HasTransitKey(transitKey) == transitKey # Undefined /\ transitKey # Null

\* the catch of line 138 throws at once: the value is never tried as a plain key
ResolveAppPrivateKey_NoFallback(transitKey, private_key) ==
  IF ~Present(private_key)
  THEN [error |-> NoError, value |-> private_key, decrypts |-> 0, parses |-> 0]
  ELSE LET d == decryptPrivateKey(transitKey, private_key) IN
       IF d.ok
       THEN [error |-> NoError, value |-> d.value, decrypts |-> 1, parses |-> 0]
       ELSE [error |-> LoginFailedError(DecryptFailedMessage), value |-> private_key,
             decrypts |-> 1, parses |-> 0]

\* lines 135-147: appPrivateKey, or the error thrown
ResolveAppPrivateKey(transitKey, private_key) ==
  IF ~Present(private_key)
  THEN [error |-> NoError, value |-> private_key, decrypts |-> 0, parses |-> 0]
  ELSE LET d == decryptPrivateKey(transitKey, private_key) IN
       IF d.ok
       THEN [error |-> NoError, value |-> d.value, decrypts |-> 1, parses |-> 0]
       ELSE IF hexStringToECPair(private_key).ok
       THEN [error |-> NoError, value |-> private_key, decrypts |-> 1, parses |-> 1]
       ELSE [error |-> LoginFailedError(DecryptFailedMessage), value |-> private_key,
             decrypts |-> 1, parses |-> 1]

\* the catch of line 151 tries the decryption a second time before giving up
ResolveCoreSessionToken_Retries(transitKey, core_token) ==
  IF ~Present(core_token)
  THEN [value |-> core_token, decrypts |-> 0]
  ELSE LET d == decryptPrivateKey(transitKey, core_token) IN
       IF d.ok THEN [value |-> d.value, decrypts |-> 1]
       ELSE [value |-> core_token, decrypts |-> 2]

\* the catch of line 151 loses the raw value
ResolveCoreSessionToken_DropsRaw(transitKey, core_token) ==
  IF ~Present(core_token)
  THEN [value |-> core_token, decrypts |-> 0]
  ELSE LET d == decryptPrivateKey(transitKey, core_token) IN
       IF d.ok THEN [value |-> d.value, decrypts |-> 1]
       ELSE [value |-> Undefined, decrypts |-> 1]

\* lines 148-154: coreSessionToken
ResolveCoreSessionToken(transitKey, core_token) ==
  IF ~Present(core_token)
  THEN [value |-> core_token, decrypts |-> 0]
  ELSE LET d == decryptPrivateKey(transitKey, core_token) IN
       IF d.ok THEN [value |-> d.value, decrypts |-> 1]
       ELSE [value |-> core_token, decrypts |-> 1]

\* lines 131-159
ResolveKeys(payload, transitKey) ==
  LET asGiven == [error |-> NoError, appPrivateKey |-> payload.private_key,
                  coreSessionToken |-> payload.core_token,
                  keyDecrypts |-> 0, coreDecrypts |-> 0]
  IN
  IF ~VersionGate(payload) THEN asGiven
  ELSE IF ~HasTransitKey(transitKey)
  THEN [asGiven EXCEPT !.error = LoginFailedError(NoTransitKeyMessage)]
  ELSE LET k == ResolveAppPrivateKey(transitKey, payload.private_key) IN
       IF k.error # NoError
       THEN [asGiven EXCEPT !.error = k.error, !.keyDecrypts = k.decrypts]
       ELSE LET t == ResolveCoreSessionToken(transitKey, payload.core_token) IN
            [error |-> NoError, appPrivateKey |-> k.value, coreSessionToken |-> t.value,
             keyDecrypts |-> k.decrypts, coreDecrypts |-> t.decrypts]

\* the version test of line 161 compares with 1.1.0, like the gate of line 133
HubUrlOf_After110(payload) ==
  IF isLaterVersion(payload.version, <<1, 1, 0>>) /\ payload.hubUrl # Null
     /\ payload.hubUrl # Undefined
  THEN payload.hubUrl
  ELSE BLOCKSTACK_DEFAULT_GAIA_HUB_URL

\* lines 160-164
HubUrlOf(payload) ==
  IF isLaterVersion(payload.version, <<1, 2, 0>>) /\ payload.hubUrl # Null
     /\ payload.hubUrl # Undefined
  THEN payload.hubUrl
  ELSE BLOCKSTACK_DEFAULT_GAIA_HUB_URL

\* lines 166-175
MakeUserData(token, payload, keys) ==
  [username |-> payload.username,
   profile |-> payload.profile,
   decentralizedID |-> payload.iss,
   identityAddress |-> getAddressFromDID(payload.iss),
   appPrivateKey |-> keys.appPrivateKey,
   coreSessionToken |-> keys.coreSessionToken,
   authResponseToken |-> token,
   hubUrl |-> HubUrlOf(payload)]

\* the test of an embedded profile (lines 177-178) is left out
ShouldFetchProfile_UrlOnly(userData, profileURL) ==
  profileURL # Undefined /\ profileURL # Null

\* lines 177-179
ShouldFetchProfile(userData, profileURL) ==
  (userData.profile = Null \/ userData.profile = Undefined)
  /\ profileURL # Undefined /\ profileURL # Null

-----------------------------------------------------------------------------
(* State *)

NoToken == [payload |-> None, signature |-> ""]

\* one processSignInResponse call: its closure (token, transitKey, nameLookupURL,
\* userData), where it is suspended (pc), what its fetch came to (response: "none",
\* "rejected", "not ok" or "ok"), how it settled (result or error) and what it has
\* called so far
IdleCall ==
  [pc |-> "idle", token |-> NoToken, transitKey |-> Undefined, nameLookupURL |-> <<>>,
   transitKeyInSession |-> Undefined,
   isValid |-> FALSE, userData |-> None, response |-> "none", responseText |-> "", wrappedProfile |-> <<>>,
   profile |-> Undefined, result |-> None, error |-> NoError,
   verifies |-> 0, keyDecrypts |-> 0, coreDecrypts |-> 0, fetches |-> 0, writes |-> 0]

\* what the last getCurrentUser came to: nothing yet, a returned userData or a
\* thrown error
NotLoaded == [outcome |-> "none", value |-> None, error |-> NoError]

Init ==
  /\ sessionData \in [transitKey : TransitKeyValues,
                      coreNode : {Undefined, "https://core.example"},
                      userData : {None}]
  /\ calls = [c \in Calls |-> IdleCall]
  /\ invoked = 0
  /\ commits = <<>>
  /\ redirects = 0
  /\ loads = 0
  /\ loaded = NotLoaded

-----------------------------------------------------------------------------
(* redirectToSignInImpl *)

\* lines 94-98: generateAndStoreTransitKey stores a fresh transit key
redirectToSignInImpl(transitKey) ==
  /\ redirects < MaxRedirects
  /\ redirects' = redirects + 1
  /\ sessionData' = [sessionData EXCEPT !.transitKey = transitKey]
  /\ UNCHANGED <<calls, invoked, commits, loads, loaded>>

-----------------------------------------------------------------------------
(* loadUserDataImpl *)

\* line 220 never taken: whatever the session holds is returned
NoUserData_Never(userData) == FALSE

\* line 220: !userData
NoUserData(userData) == userData = None

\* lines 219-223: the userData of the session, or InvalidStateError
LoadUserData(session) ==
  LET userData == session.userData IN
  IF NoUserData(userData)
  THEN [outcome |-> "threw", value |-> None, error |-> InvalidStateError(NoUserDataMessage)]
  ELSE [outcome |-> "returned", value |-> userData, error |-> NoError]

\* lines 218-224
loadUserDataImpl ==
  /\ loads < MaxLoads
  /\ loads' = loads + 1
  /\ loaded' = LoadUserData(sessionData)
  /\ UNCHANGED <<sessionData, calls, invoked, commits, redirects>>

-----------------------------------------------------------------------------
(* handlePendingSignInImpl *)

\* a failed sign-in also discards the userData the session holds
Reject_ClearsUserData(c, call, error) ==
  /\ calls' = [calls EXCEPT ![c] = [call EXCEPT !.pc = "rejected", !.error = error]]
  /\ sessionData' = [sessionData EXCEPT !.userData = None]
  /\ UNCHANGED commits

\* the error is swallowed: the promise of the call neither resolves nor rejects
Reject_Swallowed(c, call, error) ==
  /\ calls' = [calls EXCEPT ![c] = [call EXCEPT !.pc = "lost", !.error = error]]
  /\ UNCHANGED <<sessionData, commits>>

\* a throw inside a callback: the promise rejects, nothing else happens
Reject(c, call, error) ==
  /\ calls' = [calls EXCEPT ![c] = [call EXCEPT !.pc = "rejected", !.error = error]]
  /\ UNCHANGED <<sessionData, commits>>

\* the new record is merged into the stored one: a username already stored stays
CommitUserData_Merges(c, call, userData) ==
  /\ sessionData' =
       [sessionData EXCEPT !.userData =
          IF sessionData.userData = None THEN Some(userData)
          ELSE Some([userData EXCEPT !.username = sessionData.userData[1].username])]
  /\ commits' = Append(commits, c)
  /\ calls' = [calls EXCEPT ![c] = [call EXCEPT !.pc = "resolved",
                                                !.userData = Some(userData),
                                                !.result = Some(userData),
                                                !.writes = @ + 1]]

\* the consumed transit key is removed from the session with the commit
CommitUserData_ClearsTransitKey(c, call, userData) ==
  /\ sessionData' = [sessionData EXCEPT !.userData = Some(userData),
                                        !.transitKey = Undefined]
  /\ commits' = Append(commits, c)
  /\ calls' = [calls EXCEPT ![c] = [call EXCEPT !.pc = "resolved",
                                                !.userData = Some(userData),
                                                !.result = Some(userData),
                                                !.writes = @ + 1]]

\* setSessionData is left out: userData is returned and never stored
CommitUserData_ReturnsOnly(c, call, userData) ==
  /\ calls' = [calls EXCEPT ![c] = [call EXCEPT !.pc = "resolved",
                                                !.userData = Some(userData),
                                                !.result = Some(userData)]]
  /\ UNCHANGED <<sessionData, commits>>

\* lines 184-187, 193-197, 202-206: getSessionData, set userData, setSessionData,
\* return userData
CommitUserData(c, call, userData) ==
  /\ sessionData' = [sessionData EXCEPT !.userData = Some(userData)]
  /\ commits' = Append(commits, c)
  /\ calls' = [calls EXCEPT ![c] = [call EXCEPT !.pc = "resolved",
                                                !.userData = Some(userData),
                                                !.result = Some(userData),
                                                !.writes = @ + 1]]

\* the record is stored before the fetch is issued, its profile still missing
AwaitFetch_CommitsFirst(c, call, userData) ==
  /\ sessionData' = [sessionData EXCEPT !.userData = Some(userData)]
  /\ commits' = Append(commits, c)
  /\ calls' = [calls EXCEPT ![c] = [call EXCEPT !.pc = "fetching",
                                                !.userData = Some(userData),
                                                !.fetches = @ + 1,
                                                !.writes = @ + 1]]

\* line 180: return fetch(profileURL)
AwaitFetch(c, call, userData) ==
  /\ calls' = [calls EXCEPT ![c] = [call EXCEPT !.pc = "fetching",
                                                !.userData = Some(userData),
                                                !.fetches = @ + 1]]
  /\ UNCHANGED <<sessionData, commits>>

\* lines 113-124: read the session, build the lookup URL, call the verifier with
\* one of the given tokens
Invoke(c, tokens) ==
  /\ c = invoked + 1
  /\ calls[c].pc = "idle"
  /\ invoked' = c
  /\ \E authResponseToken \in tokens :
       LET transitKey == sessionData.transitKey
           coreNodeSessionValue == sessionData.coreNode
           coreNode == IF coreNodeSessionValue # Undefined /\ coreNodeSessionValue # Null
                       THEN coreNodeSessionValue ELSE DEFAULT_CORE_NODE
           nameLookupURL == <<coreNode, NAME_LOOKUP_PATH>>
       IN calls' = [calls EXCEPT ![c] = [@ EXCEPT !.pc = "verifying",
                                                 !.token = authResponseToken,
                                                 !.transitKey = transitKey,
                                                 !.nameLookupURL = nameLookupURL,
                                                 !.verifies = @ + 1]]
  /\ UNCHANGED <<sessionData, commits, redirects, loads, loaded>>

\* the callback reads the session's transit key again when it runs
TransitKeyOfRun_ReadAgain(call) == sessionData.transitKey

\* lines 113, 134, 137, 150: the callback uses the const transitKey of its closure,
\* read from the session at line 113
TransitKeyOfRun(call) == call.transitKey

\* lines 125-208: the callback of verifyAuthResponse; transitKeyInSession records
\* what the session holds as transit key when the callback runs
VerifyReturn(c, isValid) ==
  /\ calls[c].pc = "verifying"
  /\ LET call == [calls[c] EXCEPT !.isValid = isValid,
                                  !.transitKeyInSession = sessionData.transitKey] IN
     IF InvalidResponse(isValid)
     THEN Reject(c, call, LoginFailedError(InvalidResponseMessage))
     ELSE LET tokenPayload == decodeToken(call.token).payload
              keys == ResolveKeys(tokenPayload, TransitKeyOfRun(call))
              resolved == [call EXCEPT !.keyDecrypts = keys.keyDecrypts,
                                       !.coreDecrypts = keys.coreDecrypts]
              userData == MakeUserData(call.token, tokenPayload, keys)
          IN IF keys.error # NoError THEN Reject(c, resolved, keys.error)
             ELSE IF ShouldFetchProfile(userData, tokenPayload.profile_url)
             THEN AwaitFetch(c, resolved, userData)
             ELSE CommitUserData(c, resolved,
                                 [userData EXCEPT !.profile = tokenPayload.profile])
  /\ UNCHANGED <<invoked, redirects, loads, loaded>>

\* line 180: fetch rejects (the host is unreachable); the chain has no handler for it
FetchFail(c) ==
  /\ calls[c].pc = "fetching"
  /\ Reject(c, [calls[c] EXCEPT !.response = "rejected"], FetchError)
  /\ UNCHANGED <<invoked, redirects, loads, loaded>>

\* lines 181-189: the callback of fetch
FetchReturn(c, response) ==
  /\ calls[c].pc = "fetching"
  /\ IF ~response.ok
     THEN CommitUserData(c, [calls[c] EXCEPT !.response = "not ok"],
                         [calls[c].userData[1] EXCEPT !.profile = DEFAULT_PROFILE])
     ELSE /\ calls' = [calls EXCEPT ![c] = [@ EXCEPT !.pc = "text",
                                                    !.response = "ok",
                                                    !.responseText = response.body]]
          /\ UNCHANGED <<sessionData, commits>>
  /\ UNCHANGED <<invoked, redirects, loads, loaded>>

\* line 190: responseText => JSON.parse(responseText)
ParseText(c) ==
  /\ calls[c].pc = "text"
  /\ LET parsed == JSONParse(calls[c].responseText) IN
     IF ~parsed.ok THEN Reject(c, calls[c], JSONSyntaxError)
     ELSE /\ calls' = [calls EXCEPT ![c] = [@ EXCEPT !.pc = "wrapped",
                                                    !.wrappedProfile = parsed.value]]
          /\ UNCHANGED <<sessionData, commits>>
  /\ UNCHANGED <<invoked, redirects, loads, loaded>>

\* line 191: wrappedProfile => extractProfile(wrappedProfile[0].token)
ExtractProfile(c) ==
  /\ calls[c].pc = "wrapped"
  /\ IF Len(calls[c].wrappedProfile) = 0 THEN Reject(c, calls[c], NoEntryError)
     ELSE /\ calls' = [calls EXCEPT ![c] =
                         [@ EXCEPT !.pc = "profile",
                                   !.profile = extractProfile(calls[c].wrappedProfile[1].token)]]
          /\ UNCHANGED <<sessionData, commits>>
  /\ UNCHANGED <<invoked, redirects, loads, loaded>>

\* lines 192-198: the callback that commits the fetched profile
CommitProfile(c) ==
  /\ calls[c].pc = "profile"
  /\ CommitUserData(c, calls[c],
                    [calls[c].userData[1] EXCEPT !.profile = calls[c].profile])
  /\ UNCHANGED <<invoked, redirects, loads, loaded>>

-----------------------------------------------------------------------------
(* Specifications *)

\* overlapping calls on one session, each with one of Tokens
Next ==
  \/ loadUserDataImpl
  \/ \E transitKey \in TransitKeys : redirectToSignInImpl(transitKey)
  \/ \E c \in Calls : Invoke(c, Tokens)
  \/ \E c \in Calls, isValid \in BOOLEAN : VerifyReturn(c, isValid)
  \/ \E c \in Calls : FetchFail(c)
  \/ \E c \in Calls, response \in Responses : FetchReturn(c, response)
  \/ \E c \in Calls : ParseText(c)
  \/ \E c \in Calls : ExtractProfile(c)
  \/ \E c \in Calls : CommitProfile(c)

Spec == Init /\ [][Next]_vars

\* the callbacks of call c that the event loop runs once the awaited verifier,
\* fetch or promise has answered
VerifierAnswers(c) == \E isValid \in BOOLEAN : VerifyReturn(c, isValid)

FetchAnswers(c) == FetchFail(c) \/ \E response \in Responses : FetchReturn(c, response)

\* Spec, with every awaited verifier call and fetch answering in the end and every
\* queued callback run
SpecLive ==
  /\ Init /\ [][Next]_vars
  /\ \A c \in Calls :
       /\ WF_vars(VerifierAnswers(c))
       /\ WF_vars(FetchAnswers(c))
       /\ WF_vars(ParseText(c))
       /\ WF_vars(ExtractProfile(c))
       /\ WF_vars(CommitProfile(c))

\* one call, with every token of AllTokens
NextAllTokens ==
  \/ \E transitKey \in TransitKeys : redirectToSignInImpl(transitKey)
  \/ Invoke(1, AllTokens)
  \/ \E isValid \in BOOLEAN : VerifyReturn(1, isValid)
  \/ FetchFail(1)
  \/ \E response \in Responses : FetchReturn(1, response)
  \/ ParseText(1)
  \/ ExtractProfile(1)
  \/ CommitProfile(1)

SpecAllTokens == Init /\ [][NextAllTokens]_vars

-----------------------------------------------------------------------------
(* Vocabulary of the claims *)

Settled(c) == calls[c].pc \in {"resolved", "rejected"}

\* the verification callback of call c has run
Verified(c) == calls[c].pc \notin {"idle", "verifying"}

PayloadOf(c) == calls[c].token.payload

\* the call that wrote the userData the session holds
LastWriter == commits[Len(commits)]

-----------------------------------------------------------------------------
(* C1 *)

\* C1: a call whose verifier returned false is rejected with
\* LoginFailedError("Invalid authentication response.") and has written nothing, and
\* the step that rejects it leaves sessionData as it was.
C1_InvalidResponseRejected ==
  /\ [](\A c \in Calls :
          (Verified(c) /\ ~calls[c].isValid) =>
            /\ calls[c].pc = "rejected"
            /\ calls[c].error = LoginFailedError(InvalidResponseMessage)
            /\ calls[c].writes = 0
            /\ calls[c].userData = None
            /\ \A i \in 1..Len(commits) : commits[i] # c)
  /\ [][\A c \in Calls :
          (calls[c].pc = "verifying" /\ calls'[c].pc # "verifying" /\ ~calls'[c].isValid)
            => sessionData' = sessionData]_vars

\* an invalid response was rejected while the session held an earlier call's userData
C1_Witness ==
  \E c \in Calls :
    /\ calls[c].pc = "rejected"
    /\ ~calls[c].isValid
    /\ calls[c].error = LoginFailedError(InvalidResponseMessage)
    /\ sessionData.userData # None

-----------------------------------------------------------------------------
(* C2 *)

\* C2: a userData held by the session was written by a call whose verifier
\* returned true and which had finished key resolution and profile resolution: the
\* writer has resolved without error, the record is the one it resolved with, its
\* keys are those the key resolution yields, and its profile is not one still to be
\* fetched; no call writes before it has resolved.
C2_OnlyVerifiedCompleteUserData ==
  /\ \A c \in Calls : calls[c].writes > 0 => (calls[c].isValid /\ calls[c].pc = "resolved")
  /\ sessionData.userData # None =>
       /\ Len(commits) > 0
       /\ LET w == LastWriter
              userData == sessionData.userData[1]
              keys == ResolveKeys(PayloadOf(w), calls[w].transitKey)
          IN /\ calls[w].isValid
             /\ calls[w].pc = "resolved"
             /\ calls[w].error = NoError
             /\ calls[w].result = sessionData.userData
             /\ userData.authResponseToken = calls[w].token
             /\ keys.error = NoError
             /\ userData.appPrivateKey = keys.appPrivateKey
             /\ userData.coreSessionToken = keys.coreSessionToken
             /\ ~ShouldFetchProfile(userData, PayloadOf(w).profile_url)
             /\ calls[w].fetches = 1 => calls[w].response \in {"not ok", "ok"}

\* the session holds a record whose profile was fetched, of a call that went through
\* verification, decryption and the whole profile chain
C2_Witness ==
  /\ sessionData.userData # None
  /\ calls[LastWriter].response = "ok"
  /\ calls[LastWriter].keyDecrypts = 1
  /\ sessionData.userData[1].profile = calls[LastWriter].profile

-----------------------------------------------------------------------------
(* C3 *)

\* C3: no call writes userData while a call invoked before it is still in flight,
\* and the commits happen in invocation order (calls are numbered in invocation
\* order).
C3_CommitsInInvocationOrder ==
  /\ \A i \in 1..Len(commits) : \A d \in Calls : d < commits[i] => Settled(d)
  /\ \A i, j \in 1..Len(commits) : i < j => commits[i] < commits[j]

-----------------------------------------------------------------------------
(* C4 *)

\* C4: a verified call whose token has version 1.2.0 or 1.3.0 and which read no
\* transit key (undefined or null) from the session is rejected with
\* LoginFailedError("... requires transit key, and none found."), whatever
\* private_key and core_token are; it decrypts nothing and commits nothing.
C4_NoTransitKeyRejected ==
  \A c \in Calls :
    (/\ Verified(c) /\ calls[c].isValid
     /\ PayloadOf(c).version \in {<<1, 2, 0>>, <<1, 3, 0>>}
     /\ calls[c].transitKey \in {Undefined, Null}) =>
      /\ calls[c].pc = "rejected"
      /\ calls[c].error = LoginFailedError(NoTransitKeyMessage)
      /\ calls[c].keyDecrypts = 0 /\ calls[c].coreDecrypts = 0
      /\ calls[c].writes = 0 /\ calls[c].fetches = 0
      /\ \A i \in 1..Len(commits) : commits[i] # c

\* a version 1.2.0 token carrying both secrets was rejected for a null transit key,
\* and the session holds no userData
C4_Witness ==
  \E c \in Calls :
    /\ calls[c].pc = "rejected"
    /\ calls[c].error = LoginFailedError(NoTransitKeyMessage)
    /\ PayloadOf(c).version = <<1, 2, 0>>
    /\ calls[c].transitKey = Null
    /\ Present(PayloadOf(c).private_key) /\ Present(PayloadOf(c).core_token)
    /\ sessionData.userData = None

-----------------------------------------------------------------------------
(* C5 *)

\* C5: a verified call whose token has version 1.1.0 or no version attempts no
\* decryption and is not rejected with a LoginFailedError, with or without a transit
\* key; the record it builds, and the record it commits, carry the token's
\* private_key and core_token unchanged.
C5_LegacyKeysPassThrough ==
  \A c \in Calls :
    (/\ Verified(c) /\ calls[c].isValid
     /\ PayloadOf(c).version \in {NoVersion, <<1, 1, 0>>}) =>
      /\ calls[c].keyDecrypts = 0 /\ calls[c].coreDecrypts = 0
      /\ calls[c].error.name # "LoginFailedError"
      /\ calls[c].userData # None
      /\ calls[c].userData[1].appPrivateKey = PayloadOf(c).private_key
      /\ calls[c].userData[1].coreSessionToken = PayloadOf(c).core_token
      /\ (calls[c].pc = "resolved" /\ LastWriter = c) =>
           /\ sessionData.userData[1].appPrivateKey = PayloadOf(c).private_key
           /\ sessionData.userData[1].coreSessionToken = PayloadOf(c).core_token

\* a version 1.1.0 token with encrypted secrets was committed as given although the
\* call read no transit key
C5_Witness ==
  \E c \in Calls :
    /\ calls[c].pc = "resolved"
    /\ PayloadOf(c).version = <<1, 1, 0>>
    /\ calls[c].transitKey = Undefined
    /\ PayloadOf(c).private_key = "tk1{a1b2c3}"
    /\ sessionData.userData # None
    /\ sessionData.userData[1].appPrivateKey = "tk1{a1b2c3}"
    /\ sessionData.userData[1].coreSessionToken = PayloadOf(c).core_token

-----------------------------------------------------------------------------
(* C6 *)

\* C6: a verified call with a version 1.2.0 token, a transit key and a private_key
\* that decrypts under that transit key resolves once it settles, and the committed
\* appPrivateKey is the decrypted key.
C6_DecryptedKeyCommitted ==
  \A c \in Calls :
    (/\ Settled(c) /\ calls[c].isValid
     /\ PayloadOf(c).version = <<1, 2, 0>>
     /\ Present(calls[c].transitKey)
     /\ Present(PayloadOf(c).private_key)
     /\ decryptPrivateKey(calls[c].transitKey, PayloadOf(c).private_key).ok) =>
      /\ calls[c].pc = "resolved"
      /\ calls[c].result[1].appPrivateKey =
           decryptPrivateKey(calls[c].transitKey, PayloadOf(c).private_key).value

-----------------------------------------------------------------------------
(* C7 *)

\* C7: when a verified call with a version 1.2.0 token and a transit key has tried
\* to decrypt core_token and failed, it is not rejected with a LoginFailedError, the
\* record it goes on with carries the raw core_token, and so does the record it
\* commits.
C7_CoreTokenFallsBackToRaw ==
  \A c \in Calls :
    (/\ Verified(c) /\ calls[c].isValid
     /\ PayloadOf(c).version = <<1, 2, 0>>
     /\ Present(calls[c].transitKey)
     /\ calls[c].coreDecrypts = 1
     /\ ~decryptPrivateKey(calls[c].transitKey, PayloadOf(c).core_token).ok) =>
      /\ calls[c].error.name # "LoginFailedError"
      /\ calls[c].userData # None
      /\ calls[c].userData[1].coreSessionToken = PayloadOf(c).core_token
      /\ (calls[c].pc = "resolved" /\ LastWriter = c) =>
           sessionData.userData[1].coreSessionToken = PayloadOf(c).core_token

\* a core_token encrypted to another key was committed raw, next to a private_key
\* that did decrypt
C7_Witness ==
  \E c \in Calls :
    /\ calls[c].pc = "resolved"
    /\ PayloadOf(c).version = <<1, 2, 0>>
    /\ calls[c].transitKey = "tk2"
    /\ PayloadOf(c).core_token = "tk1{core-session}"
    /\ calls[c].coreDecrypts = 1
    /\ sessionData.userData # None
    /\ sessionData.userData[1].coreSessionToken = "tk1{core-session}"

-----------------------------------------------------------------------------
(* C8 *)

\* C8: a verified call whose token has no profile and whose fetch of profile_url
\* did not yield a successful response (the response is not ok, or fetch itself
\* rejects) resolves, and the committed profile is DEFAULT_PROFILE.
C8_UnreachableProfileDefaults ==
  \A c \in Calls :
    (/\ calls[c].isValid
     /\ ~Present(PayloadOf(c).profile) /\ Present(PayloadOf(c).profile_url)
     /\ calls[c].response \in {"rejected", "not ok"}) =>
      /\ calls[c].pc = "resolved"
      /\ calls[c].result[1].profile = DEFAULT_PROFILE

-----------------------------------------------------------------------------
(* C9 *)

\* C9: a call is rejected only with one of the three LoginFailedErrors, and only in
\* the verification callback, before any profile fetch: no failure of the profile
\* resolution rejects it.
C9_OnlyLoginFailedErrors ==
  \A c \in Calls :
    calls[c].pc = "rejected" =>
      /\ calls[c].error \in {LoginFailedError(InvalidResponseMessage),
                             LoginFailedError(NoTransitKeyMessage),
                             LoginFailedError(DecryptFailedMessage)}
      /\ calls[c].fetches = 0

-----------------------------------------------------------------------------
(* C10 *)

\* version v is later than 1.2.0
After120(v) ==
  /\ v # NoVersion
  /\ \/ v[1] > 1
     \/ v[1] = 1 /\ v[2] > 2
     \/ v[1] = 1 /\ v[2] = 2 /\ v[3] > 0

\* C10: the hubUrl a call commits is the token's hubUrl when the token's version is
\* later than 1.2.0 and its hubUrl is neither undefined nor null, and
\* BLOCKSTACK_DEFAULT_GAIA_HUB_URL in every other case.
C10_HubUrlSelection ==
  \A c \in Calls :
    calls[c].pc = "resolved" =>
      LET expected == IF After120(PayloadOf(c).version) /\ Present(PayloadOf(c).hubUrl)
                      THEN PayloadOf(c).hubUrl
                      ELSE BLOCKSTACK_DEFAULT_GAIA_HUB_URL
      IN /\ calls[c].result[1].hubUrl = expected
         /\ LastWriter = c => sessionData.userData[1].hubUrl = expected

\* a version 1.2.0 token naming a custom hub was committed with the default hub
C10_Witness ==
  \E c \in Calls :
    /\ calls[c].pc = "resolved"
    /\ PayloadOf(c).version = <<1, 2, 0>>
    /\ PayloadOf(c).hubUrl = "https://custom.hub"
    /\ sessionData.userData # None
    /\ sessionData.userData[1].hubUrl = BLOCKSTACK_DEFAULT_GAIA_HUB_URL

-----------------------------------------------------------------------------
(* C11 *)

\* C11: a getCurrentUser step throws InvalidStateError exactly when no
\* processSignInResponse call has committed on the session, returns the record of
\* the most recent commit otherwise, and leaves sessionData as it was.
C11_LoadUserData ==
  [][loads' # loads =>
       /\ sessionData' = sessionData
       /\ (loaded'.outcome = "threw") <=> (Len(commits) = 0)
       /\ loaded'.outcome = "threw" =>
            /\ loaded'.error = InvalidStateError(NoUserDataMessage)
            /\ loaded'.value = None
       /\ Len(commits) > 0 =>
            /\ loaded'.outcome = "returned"
            /\ loaded'.error = NoError
            /\ loaded'.value = calls[LastWriter].result]_vars

\* after two calls with different tokens have committed, getCurrentUser returned the
\* record of the later commit
C11_Witness ==
  /\ Len(commits) = 2
  /\ calls[1].token # calls[2].token
  /\ loaded.outcome = "returned"
  /\ loaded.value = calls[LastWriter].result

-----------------------------------------------------------------------------
(* C12 *)

\* the commits of call c
CommitsOf(c) == {i \in 1..Len(commits) : commits[i] = c}

\* C12: a call that has resolved has written userData exactly once, and a call that
\* has not resolved (pending or rejected) has written nothing and has no result; the
\* step in which a call writes is the step in which it resolves, and the record it
\* stores is the record it resolves with.
C12_ExactlyOneWrite ==
  /\ [](\A c \in Calls :
          /\ calls[c].pc = "resolved" =>
               /\ calls[c].writes = 1
               /\ Cardinality(CommitsOf(c)) = 1
               /\ calls[c].result # None
               /\ LastWriter = c => sessionData.userData = calls[c].result
          /\ calls[c].pc # "resolved" =>
               /\ calls[c].writes = 0
               /\ CommitsOf(c) = {}
               /\ calls[c].result = None)
  /\ [][\A c \in Calls :
          (\/ calls'[c].writes # calls[c].writes
           \/ (calls'[c].pc = "resolved" /\ calls[c].pc # "resolved")) =>
            /\ calls'[c].writes = calls[c].writes + 1
            /\ calls'[c].pc = "resolved"
            /\ sessionData'.userData = calls'[c].result
            /\ commits' = Append(commits, c)]_vars

\* a call resolved with a fetched profile after exactly one write, and the session
\* holds the record it resolved with
C12_Witness ==
  \E c \in Calls :
    /\ calls[c].pc = "resolved"
    /\ calls[c].response = "ok"
    /\ calls[c].writes = 1
    /\ sessionData.userData = calls[c].result
    /\ sessionData.userData[1].profile = calls[c].profile

-----------------------------------------------------------------------------
(* C13 *)

-----------------------------------------------------------------------------
(* C14 *)

\* C14: no step of a processSignInResponse call, resolving or rejecting, changes the
\* session's transitKey or coreNode; a commit changes userData and nothing else of
\* sessionData.
C14_CommitKeepsTransitKey ==
  [][(calls' # calls \/ commits' # commits) =>
       /\ sessionData'.transitKey = sessionData.transitKey
       /\ sessionData'.coreNode = sessionData.coreNode
       /\ commits' = commits => sessionData' = sessionData]_vars

\* a call has committed a key it decrypted with the transit key, and the session
\* still holds that transit key
C14_Witness ==
  /\ sessionData.userData # None
  /\ calls[LastWriter].pc = "resolved"
  /\ calls[LastWriter].keyDecrypts = 1
  /\ sessionData.userData[1].appPrivateKey = "a1b2c3"
  /\ Present(sessionData.transitKey)
  /\ sessionData.transitKey = calls[LastWriter].transitKey

-----------------------------------------------------------------------------
(* C15 *)

\* C15: a call that has started has called the verifier exactly once; it decrypts
\* private_key at most once and core_token at most once, and only once the verifier
\* has returned true; it issues the profile fetch at most once, and only after the
\* verifier has returned true and the key resolution has succeeded, so nothing else
\* is pending while the verifier is.
C15_OneCallAtATimeNoRetry ==
  \A c \in Calls :
    /\ calls[c].pc = "idle" =>
         calls[c].verifies = 0 /\ calls[c].fetches = 0
    /\ calls[c].pc # "idle" => calls[c].verifies = 1
    /\ calls[c].fetches \in {0, 1}
    /\ calls[c].keyDecrypts \in {0, 1}
    /\ calls[c].coreDecrypts \in {0, 1}
    /\ calls[c].pc \in {"idle", "verifying"} =>
         calls[c].fetches = 0 /\ calls[c].keyDecrypts = 0 /\ calls[c].coreDecrypts = 0
    /\ (calls[c].keyDecrypts + calls[c].coreDecrypts > 0) => calls[c].isValid
    /\ calls[c].fetches = 1 =>
         /\ calls[c].isValid
         /\ ResolveKeys(PayloadOf(c), calls[c].transitKey).error = NoError
    /\ calls[c].pc = "fetching" => calls[c].fetches = 1 /\ calls[c].response = "none"

\* a call has resolved after one verification, one decryption of each secret (that
\* of core_token failing) and one fetch
C15_Witness ==
  \E c \in Calls :
    /\ calls[c].pc = "resolved"
    /\ calls[c].verifies = 1
    /\ calls[c].keyDecrypts = 1
    /\ calls[c].coreDecrypts = 1
    /\ ~decryptPrivateKey(calls[c].transitKey, PayloadOf(c).core_token).ok
    /\ calls[c].fetches = 1
    /\ calls[c].response = "ok"

-----------------------------------------------------------------------------
(* C16 *)

\* what C16 says of call c: the fetch is issued exactly when the token has no
\* profile and has a profile_url; with an embedded profile, and with neither, the
\* call makes no fetch and commits the payload's profile value
ProfileRule(c) ==
  LET profile == PayloadOf(c).profile
      profileURL == PayloadOf(c).profile_url
  IN /\ calls[c].fetches = 1 <=> (~Present(profile) /\ Present(profileURL))
     /\ (Present(profile) \/ ~Present(profileURL)) =>
          /\ calls[c].fetches = 0
          /\ calls[c].response = "none"
          /\ calls[c].pc = "resolved"
          /\ calls[c].result[1].profile = profile
          /\ LastWriter = c => sessionData.userData[1].profile = profile

\* C16 as stated: the rule holds of every call whose token was verified.
C16_FetchIffVerified ==
  \A c \in Calls : (Verified(c) /\ calls[c].isValid) => ProfileRule(c)

\* C16 as amended: the rule holds of every call whose token was verified and whose
\* key resolution succeeded (the call was not rejected with a LoginFailedError at
\* the transit-key check or at the private_key decryption).
C16_FetchIffKeysResolved ==
  \A c \in Calls :
    (Verified(c) /\ calls[c].isValid /\ calls[c].error.name # "LoginFailedError")
      => ProfileRule(c)

\* a token with an embedded profile and a profile_url was committed with the
\* embedded profile and without a fetch
C16_Witness ==
  \E c \in Calls :
    /\ calls[c].pc = "resolved"
    /\ Present(PayloadOf(c).profile) /\ Present(PayloadOf(c).profile_url)
    /\ calls[c].fetches = 0
    /\ sessionData.userData # None
    /\ sessionData.userData[1].profile = PayloadOf(c).profile

-----------------------------------------------------------------------------
(* C17 *)

\* C17: provided the verifier and the fetch answer, every call that was invoked
\* settles in the end; a call that has not settled always has a callback to run
\* next; and a settled call stays as it settled, resolved with a userData or
\* rejected with an error.
C17_EventuallySettlesOnce ==
  /\ \A c \in Calls : (calls[c].pc # "idle") ~> Settled(c)
  /\ [](\A c \in Calls :
          /\ calls[c].pc \notin {"idle", "resolved", "rejected"} =>
               ENABLED (\/ VerifierAnswers(c) \/ FetchAnswers(c) \/ ParseText(c)
                        \/ ExtractProfile(c) \/ CommitProfile(c))
          /\ calls[c].pc = "resolved" => calls[c].result # None /\ calls[c].error = NoError
          /\ calls[c].pc = "rejected" => calls[c].result = None /\ calls[c].error # NoError)
  /\ [][\A c \in Calls : Settled(c) => calls'[c] = calls[c]]_vars

\* every call has settled, one of them after the whole fetch chain and one rejected
C17_Witness ==
  /\ \A c \in Calls : Settled(c)
  /\ \E c \in Calls : calls[c].pc = "resolved" /\ calls[c].response = "ok"
  /\ \E c \in Calls : calls[c].pc = "rejected" /\ calls[c].fetches = 1

-----------------------------------------------------------------------------
(* C18 *)

\* C18: the step in which a call is rejected (at verification, at the transit-key
\* check, at the private_key decryption or later) leaves the session's userData as
\* it was, so that getCurrentUser yields after it what it yielded before it; a
\* rejected call has never written.
C18_RejectionKeepsUserData ==
  /\ [][\A c \in Calls :
          (calls'[c].pc = "rejected" /\ calls[c].pc # "rejected") =>
            /\ sessionData'.userData = sessionData.userData
            /\ LoadUserData(sessionData') = LoadUserData(sessionData)]_vars
  /\ [](\A c \in Calls : calls[c].pc = "rejected" => CommitsOf(c) = {})

\* call 2 was rejected with a LoginFailedError after its verification, and the
\* session holds, and getCurrentUser has returned, the record call 1 committed
C18_Witness ==
  /\ calls[2].pc = "rejected"
  /\ calls[2].isValid
  /\ calls[2].error.name = "LoginFailedError"
  /\ commits = <<1>>
  /\ sessionData.userData = calls[1].result
  /\ loaded = LoadUserData(sessionData)
  /\ loaded.outcome = "returned"

-----------------------------------------------------------------------------
(* C19 *)

\* C19: whatever the interleaving of the calls, the userData the session holds is
\* the record of the call that committed last, and every field of it comes from that
\* call: its token, the claims of that token, the keys resolved from that token with
\* the transit key that call read, and that call's profile.
C19_UserDataOfOneCall ==
  sessionData.userData # None =>
    /\ Len(commits) > 0
    /\ LET w == LastWriter
           userData == sessionData.userData[1]
           payload == PayloadOf(w)
           keys == ResolveKeys(payload, calls[w].transitKey)
       IN /\ sessionData.userData = calls[w].result
          /\ userData.authResponseToken = calls[w].token
          /\ userData.username = payload.username
          /\ userData.decentralizedID = payload.iss
          /\ userData.identityAddress = getAddressFromDID(payload.iss)
          /\ userData.hubUrl = HubUrlOf(payload)
          /\ userData.appPrivateKey = keys.appPrivateKey
          /\ userData.coreSessionToken = keys.coreSessionToken
          /\ userData.profile =
               IF calls[w].response = "ok" THEN calls[w].profile
               ELSE IF calls[w].response = "not ok" THEN DEFAULT_PROFILE
               ELSE payload.profile

\* two overlapping calls with different tokens have both committed, the one invoked
\* first last, and the session holds the whole record of that call
C19_Witness ==
  /\ commits = <<2, 1>>
  /\ calls[1].token # calls[2].token
  /\ calls[1].response = "ok"
  /\ sessionData.userData = calls[1].result
  /\ sessionData.userData[1].username = PayloadOf(1).username
  /\ sessionData.userData[1].username # calls[2].result[1].username

-----------------------------------------------------------------------------
(* C20 *)

\* C20: a call reads the session's transit key when it is invoked and keeps that
\* value; the gated block of the verification callback tests and decrypts with it,
\* whatever the session holds as transit key when the callback runs: the number of
\* decryptions, the rejection and the keys of the record are those the key read at
\* invocation gives.
C20_TransitKeyReadAtInvocation ==
  /\ [][\A c \in Calls :
          /\ (calls[c].pc = "idle" /\ calls'[c].pc # "idle") =>
               calls'[c].transitKey = sessionData.transitKey
          /\ calls[c].pc # "idle" => calls'[c].transitKey = calls[c].transitKey]_vars
  /\ [](\A c \in Calls :
          (Verified(c) /\ calls[c].isValid) =>
            LET keys == ResolveKeys(PayloadOf(c), calls[c].transitKey) IN
            /\ calls[c].keyDecrypts = keys.keyDecrypts
            /\ calls[c].coreDecrypts = keys.coreDecrypts
            /\ IF keys.error # NoError
               THEN /\ calls[c].pc = "rejected"
                    /\ calls[c].error = keys.error
                    /\ calls[c].userData = None
               ELSE /\ calls[c].userData # None
                    /\ calls[c].userData[1].appPrivateKey = keys.appPrivateKey
                    /\ calls[c].userData[1].coreSessionToken = keys.coreSessionToken)

\* the session's transit key was replaced while the verification of a call was
\* pending, and the call decrypted both secrets with the key it had read
C20_Witness ==
  \E c \in Calls :
    /\ Verified(c)
    /\ redirects = 1
    /\ calls[c].transitKey = "tk1"
    /\ calls[c].transitKeyInSession = "tk2"
    /\ VersionGate(PayloadOf(c))
    /\ calls[c].keyDecrypts = 1
    /\ calls[c].coreDecrypts = 1
    /\ calls[c].userData # None
    /\ calls[c].userData[1].appPrivateKey = "a1b2c3"
    /\ calls[c].userData[1].appPrivateKey # PayloadOf(c).private_key
    /\ calls[c].userData[1].coreSessionToken = "core-session"

====
